---- MODULE Spec2Model ----
(***************************************************************************)
(* A model of kilo.c (honzatomek/c_kilo): the raw-mode lifecycle, the      *)
(* window-size query and its cursor-position fallback, the escape-sequence *)
(* key decoder, row rendering, cursor movement, scrolling, the frame built *)
(* by editorRefreshScreen and the main loop.                               *)
(*                                                                         *)
(* Bytes are their integer values, keys are the values of enum editorKey.  *)
(* stdin is the terminal's input queue: read() returns its head, or 0      *)
(* (timeout, VMIN = 0 / VTIME = 1) when it is empty.                       *)
(*                                                                         *)
(* Three specifications: Spec is the program from its start, with enough   *)
(* memory for every frame; SpecKey is the main loop on arbitrary pending   *)
(* input; SpecDraw is the main loop with realloc failing in abAppend.      *)
(***************************************************************************)
EXTENDS Integers, Sequences, FiniteSets, TLC

VARIABLES
    E,          \* struct editorConfig E (cx, cy, rowoff, coloff, screenrows, screencols, numrows, row)
    pc,         \* position of the process in main()
    stdin,      \* bytes pending on STDIN_FILENO
    c,          \* the local c of editorProcessKeypress: the key editorReadKey returned
    readBytes,  \* the bytes the last editorReadKey or getCursorPosition call read
    timedOut,   \* the running editorReadKey call has had a first-byte read return != 1
    termRaw,    \* the terminal is in raw mode
    atexit,     \* number of registered exit handlers still to run
    exitCalls,  \* number of calls of exit() so far
    exitStatus, \* status passed to the last exit()
    out,        \* terminal-lifecycle events in program order
    killedAt,   \* pc at which a terminating signal was delivered
    frame,      \* the bytes of the last write of editorRefreshScreen
    reallocFails \* calls of realloc in abAppend that will still return NULL

vars == <<E, pc, stdin, c, readBytes, timedOut, termRaw, atexit, exitCalls, exitStatus, out, killedAt, frame, reallocFails>>

----------------------------------------------------------------------------
(* Bounds of the model *)

MaxScreenRows == 2
MaxScreenCols == 3
MaxExitCalls == 2
MaxTail == 2
MaxAllocFail == 1

----------------------------------------------------------------------------
(* defines *)

ARROW_UP == 1000
ARROW_DOWN == 1001
ARROW_RIGHT == 1002
ARROW_LEFT == 1003
DEL_KEY == 1004
HOME_KEY == 1005
END_KEY == 1006
PAGE_UP == 1007
PAGE_DOWN == 1008

CTRL_Q == 17
ESC == 27
CH_LBRACKET == 91
CH_O == 79
CH_TILDE == 126
CH_0 == 48
CH_1 == 49
CH_2 == 50
CH_3 == 51
CH_4 == 52
CH_5 == 53
CH_6 == 54
CH_7 == 55
CH_8 == 56
CH_9 == 57
CH_A == 65
CH_B == 66
CH_C == 67
CH_D == 68
CH_F == 70
CH_H == 72
CH_TAB == 9
CH_SPACE == 32
CH_CR == 13
CH_LF == 10
CH_MINUS == 45
CH_SEMI == 59
CH_QUESTION == 63
CH_K == 75
CH_R == 82
CH_h == 104
CH_l == 108
CH_x == 120

NoKey == 0 - 1

KILO_TAB_STOP == 8

----------------------------------------------------------------------------
(* terminal: editorReadKey *)

Drop(s, n) == SubSeq(s, n + 1, Len(s))

TildeKeyAlt(d) ==
    CASE d = CH_1 -> HOME_KEY
      [] d = CH_3 -> DEL_KEY
      [] d = CH_4 -> END_KEY
      [] d = CH_5 -> PAGE_UP
      [] d = CH_6 -> PAGE_DOWN
      [] d = CH_7 -> HOME_KEY
      [] d = CH_8 -> END_KEY
      [] OTHER -> ESC

\* The digit switch after ESC [ <digit> ~ ; a digit without a case falls through
\* to the final return '\x1b'.
TildeKey(d) ==
    CASE d = CH_1 -> HOME_KEY
      [] d = CH_2 -> END_KEY
      [] d = CH_3 -> DEL_KEY
      [] d = CH_5 -> PAGE_UP
      [] d = CH_6 -> PAGE_DOWN
      [] d = CH_7 -> HOME_KEY
      [] d = CH_8 -> END_KEY
      [] OTHER -> ESC

\* The letter switch after ESC [
BracketKey(l) ==
    CASE l = CH_A -> ARROW_UP
      [] l = CH_B -> ARROW_DOWN
      [] l = CH_C -> ARROW_RIGHT
      [] l = CH_D -> ARROW_LEFT
      [] l = CH_H -> HOME_KEY
      [] l = CH_F -> END_KEY
      [] OTHER -> ESC

\* The letter switch after ESC O
OKey(l) ==
    CASE l = CH_H -> HOME_KEY
      [] l = CH_F -> END_KEY
      [] OTHER -> ESC

\* After ESC [ <digit>: the code reads one more byte (seq[2]) before deciding.
DigitBranchAlt(in) == [key |-> ESC, n |-> 3]

DigitBranch(in) ==
    IF Len(in) < 4 THEN [key |-> ESC, n |-> 3]
    ELSE IF in[4] = CH_TILDE THEN [key |-> TildeKey(in[3]), n |-> 4]
    ELSE [key |-> ESC, n |-> 4]

\* editorReadKey once its first read has returned a byte: in is the input queue
\* (non-empty); the result is the key returned and the number of bytes consumed.
\* A read that finds the queue empty returns 0 and the call returns '\x1b'.
editorReadKey(in) ==
    IF in[1] # ESC THEN [key |-> in[1], n |-> 1]
    ELSE IF Len(in) < 2 THEN [key |-> ESC, n |-> 1]
    ELSE IF Len(in) < 3 THEN [key |-> ESC, n |-> 2]
    ELSE IF in[2] = CH_LBRACKET THEN
            IF in[3] >= CH_0 /\ in[3] <= CH_9 THEN DigitBranch(in)
            ELSE [key |-> BracketKey(in[3]), n |-> 3]
    ELSE IF in[2] = CH_O THEN [key |-> OKey(in[3]), n |-> 3]
    ELSE [key |-> ESC, n |-> 3]

----------------------------------------------------------------------------
(* row operations and file i/o *)

Spaces(n) == [i \in 1..n |-> CH_SPACE]

RECURSIVE RenderLoop(_, _)
\* The copy loop of editorUpdateRow. render holds the bytes of row->render
\* below idx, so idx = Len(render); a tab stores one space and then spaces
\* until idx is a multiple of KILO_TAB_STOP.
RenderLoop(chars, render) ==
    IF chars = <<>> THEN render
    ELSE IF Head(chars) = CH_TAB
         THEN RenderLoop(Tail(chars),
                         render \o Spaces(KILO_TAB_STOP - (Len(render) % KILO_TAB_STOP)))
    ELSE RenderLoop(Tail(chars), Append(render, Head(chars)))

\* What the copy loop of editorUpdateRow can start from. "int idx;" has no
\* initializer, so the loop starts at whatever the variable holds; the bytes of
\* the fresh malloc block below that index are never stored to and keep what
\* the block held. Each element is that never-stored prefix of row->render (its
\* length is the initial idx).
Uninit == { <<>>, <<CH_x>> }

\* editorUpdateRow: render is row->render[0 .. rsize).
editorUpdateRow(row, pre) ==
    [row EXCEPT !.render = RenderLoop(row.chars, pre),
                !.rsize = Len(RenderLoop(row.chars, pre))]

\* editorAppendRow: the new row holds the line's bytes and their count, and is
\* rendered by editorUpdateRow.
editorAppendRow(e, s, pre) ==
    [e EXCEPT !.row = Append(e.row, editorUpdateRow([chars |-> s, size |-> Len(s),
                                                     render |-> <<>>, rsize |-> 0], pre)),
              !.numrows = e.numrows + 1]

RECURSIVE AppendLines(_, _, _)
\* editorOpen's getline loop: one editorAppendRow per line, in file order;
\* pres[i] is what editorUpdateRow starts from for line i.
AppendLines(e, lines, pres) ==
    IF lines = <<>> THEN e
    ELSE AppendLines(editorAppendRow(e, Head(lines), Head(pres)), Tail(lines), Tail(pres))

\* The files the editor is started on (line terminators already stripped).
Files ==
    { <<>>,
      << <<97, 98>> >>,
      << <<97, 98, 99>>, <<CH_TAB, CH_x>>, <<>> >>,
      << <<97, 98, 99, 100>>, <<97>> >> }

----------------------------------------------------------------------------
(* output: editorScroll *)

ScrollRowAbove(e) ==
    IF e.cy < e.rowoff THEN [e EXCEPT !.rowoff = e.cy] ELSE e

ScrollRowBelowAlt(e) ==
    IF e.cy >= e.rowoff + e.screenrows THEN [e EXCEPT !.rowoff = e.cy - e.screenrows] ELSE e

ScrollRowBelow(e) ==
    IF e.cy >= e.rowoff + e.screenrows THEN [e EXCEPT !.rowoff = e.cy - e.screenrows + 1] ELSE e

ScrollColLeftAlt(e) == [e EXCEPT !.coloff = e.cx]

ScrollColLeft(e) ==
    IF e.cx < e.coloff THEN [e EXCEPT !.coloff = e.cx] ELSE e

ScrollColRight(e) ==
    IF e.cx >= e.coloff + e.screencols THEN [e EXCEPT !.coloff = e.cx - e.screencols + 1] ELSE e

editorScroll(e) == ScrollColRight(ScrollColLeft(ScrollRowBelow(ScrollRowAbove(e))))

----------------------------------------------------------------------------
(* append buffer and output: abAppend, editorDrawRows, editorRefreshScreen *)

\* abAppend: realloc returns NULL (ok = FALSE) and the bytes are dropped, or the
\* bytes are copied to the end of the buffer.
abAppend(ab, s, ok) == IF ok THEN ab \o s ELSE ab

HideCursor == <<ESC, CH_LBRACKET, CH_QUESTION, CH_2, CH_5, CH_l>>
CursorHome == <<ESC, CH_LBRACKET, CH_H>>
EraseLine == <<ESC, CH_LBRACKET, CH_K>>
LineBreak == <<CH_CR, CH_LF>>
ShowCursor == <<ESC, CH_LBRACKET, CH_QUESTION, CH_2, CH_5, CH_h>>

\* "Kilo editor -- version %s" with KILO_VERSION "0.0.1"
Welcome ==
    <<75, 105, 108, 111, 32, 101, 100, 105, 116, 111, 114, 32, 45, 45, 32,
      118, 101, 114, 115, 105, 111, 110, 32, 48, 46, 48, 46, 49>>

RECURSIVE Dec(_)
\* printf's %d
Dec(n) ==
    IF n < 0 THEN <<CH_MINUS>> \o Dec(0 - n)
    ELSE IF n < 10 THEN <<CH_0 + n>>
    ELSE Append(Dec(n \div 10), CH_0 + (n % 10))

\* The snprintf of editorRefreshScreen: ESC [ <row> ; <column> H, 1-based.
CursorTo(e) ==
    <<ESC, CH_LBRACKET>> \o Dec((e.cy - e.rowoff) + 1) \o <<CH_SEMI>>
        \o Dec((e.cx - e.coloff) + 1) \o <<CH_H>>

\* The welcome row: the s arguments of its abAppend calls, in call order.
WelcomeRow(e) ==
    LET welcomelen == IF Len(Welcome) > e.screencols THEN e.screencols ELSE Len(Welcome)
        padding == (e.screencols - welcomelen) \div 2
    IN  (IF padding # 0 THEN << <<CH_TILDE>> >> \o [i \in 1..(padding - 1) |-> <<CH_SPACE>>]
         ELSE << >>)
        \o << SubSeq(Welcome, 1, welcomelen) >>

\* A row of the file: render[coloff .. coloff + len), len clamped to
\* 0 .. screencols.
TextRow(e, filerow) ==
    LET row == e.row[filerow + 1]
        len0 == row.rsize - e.coloff
        len1 == IF len0 < 0 THEN 0 ELSE len0
        len == IF len1 > e.screencols THEN e.screencols ELSE len1
    IN  << SubSeq(row.render, e.coloff + 1, e.coloff + len) >>

\* One pass of the loop of editorDrawRows: the s arguments of its abAppend
\* calls, in call order.
DrawRow(e, y) ==
    (IF y + e.rowoff >= e.numrows
     THEN IF e.numrows = 0 /\ y = e.screenrows \div 3 THEN WelcomeRow(e)
          ELSE << <<CH_TILDE>> >>
     ELSE TextRow(e, y + e.rowoff))
    \o << EraseLine >>
    \o (IF y < e.screenrows - 1 THEN << LineBreak >> ELSE << >>)

RECURSIVE DrawRowsRange(_, _, _)
\* The passes lo .. hi of the loop of editorDrawRows, in order.
DrawRowsRange(e, lo, hi) ==
    IF lo > hi THEN << >>
    ELSE IF lo = hi THEN DrawRow(e, lo)
    ELSE DrawRowsRange(e, lo, (lo + hi) \div 2) \o DrawRowsRange(e, (lo + hi) \div 2 + 1, hi)

\* for (y = 0; y < E.screenrows; y++)
editorDrawRows(e) == DrawRowsRange(e, 0, e.screenrows - 1)

\* The s arguments of all abAppend calls of one editorRefreshScreen, in call
\* order.
RefreshAppends(e) ==
    << HideCursor, CursorHome >> \o editorDrawRows(e) \o << CursorTo(e), ShowCursor >>

RECURSIVE AppendRange(_, _, _, _)
\* What the abAppend calls lo .. hi put into the buffer, in call order; failed
\* holds the numbers of the calls in which realloc returns NULL.
AppendRange(pieces, lo, hi, failed) ==
    IF lo > hi THEN << >>
    ELSE IF lo = hi THEN abAppend(<< >>, pieces[lo], lo \notin failed)
    ELSE AppendRange(pieces, lo, (lo + hi) \div 2, failed)
             \o AppendRange(pieces, (lo + hi) \div 2 + 1, hi, failed)

RECURSIVE FailSets(_, _)
\* The sets of at most k of the calls 1 .. n.
FailSets(n, k) ==
    IF k = 0 THEN { {} }
    ELSE { {} } \cup { F \cup {i} : F \in FailSets(n, k - 1), i \in 1..n }

----------------------------------------------------------------------------
(* input: editorMoveCursor, editorProcessKeypress *)

\* row ? row->size : 0 for the row the cursor is on
RowLen(e) == IF e.cy >= e.numrows THEN 0 ELSE e.row[e.cy + 1].size

MoveUp(e) == IF e.cy # 0 THEN [e EXCEPT !.cy = e.cy - 1] ELSE e

MoveDownAlt(e) == [e EXCEPT !.cy = e.cy + 1]

MoveDown(e) == IF e.cy < e.numrows THEN [e EXCEPT !.cy = e.cy + 1] ELSE e

MoveRightAlt(e) ==
    IF e.cy < e.numrows /\ e.cx < RowLen(e) THEN [e EXCEPT !.cx = e.cx + 1]
    ELSE IF e.cy < e.numrows /\ e.cx = RowLen(e) /\ e.cy + 1 < e.numrows
         THEN [e EXCEPT !.cy = e.cy + 1, !.cx = 0]
    ELSE e

MoveRight(e) ==
    IF e.cy < e.numrows /\ e.cx < RowLen(e) THEN [e EXCEPT !.cx = e.cx + 1]
    ELSE IF e.cy < e.numrows /\ e.cx = RowLen(e) THEN [e EXCEPT !.cy = e.cy + 1, !.cx = 0]
    ELSE e

MoveLeft(e) ==
    IF e.cx # 0 THEN [e EXCEPT !.cx = e.cx - 1]
    ELSE IF e.cy > 0 THEN [e EXCEPT !.cy = e.cy - 1, !.cx = e.row[e.cy].size]
    ELSE e

\* the snap at the end of editorMoveCursor
SnapCx(e) == IF e.cx > RowLen(e) THEN [e EXCEPT !.cx = RowLen(e)] ELSE e

editorMoveCursor(e, key) ==
    SnapCx(CASE key = ARROW_UP -> MoveUp(e)
             [] key = ARROW_DOWN -> MoveDown(e)
             [] key = ARROW_RIGHT -> MoveRight(e)
             [] key = ARROW_LEFT -> MoveLeft(e)
             [] OTHER -> e)

MoveTimesAlt(e, key, times) ==
    IF times = 0 THEN e ELSE editorMoveCursor(e, key)

RECURSIVE MoveTimes(_, _, _)
\* while (times--) editorMoveCursor(key). A pass that changes nothing ends the
\* recursion: editorMoveCursor is a function of E and the key, so every later
\* pass would change nothing either.
MoveTimes(e, key, times) ==
    IF times = 0 THEN e
    ELSE LET moved == editorMoveCursor(e, key)
         IN  IF moved = e THEN e ELSE MoveTimes(moved, key, times - 1)

HomeKey(e) == [e EXCEPT !.cx = 0]

EndKeyAlt(e) == [e EXCEPT !.cx = e.screencols]

EndKey(e) == [e EXCEPT !.cx = e.screencols - 1]

DispatchAlt(e, key) ==
    CASE key = HOME_KEY -> HomeKey(e)
      [] key = END_KEY -> EndKey(e)
      [] key = PAGE_UP -> MoveTimes(e, ARROW_UP, e.screenrows)
      [] key = PAGE_DOWN -> MoveTimes(e, ARROW_DOWN, e.screenrows)
      [] key \in {ARROW_UP, ARROW_DOWN, ARROW_RIGHT, ARROW_LEFT} -> editorMoveCursor(e, key)
      [] OTHER -> HomeKey(e)

\* The switch of editorProcessKeypress for every key but CTRL_KEY('q').
Dispatch(e, key) ==
    CASE key = HOME_KEY -> HomeKey(e)
      [] key = END_KEY -> EndKey(e)
      [] key = PAGE_UP -> MoveTimes(e, ARROW_UP, e.screenrows)
      [] key = PAGE_DOWN -> MoveTimes(e, ARROW_DOWN, e.screenrows)
      [] key \in {ARROW_UP, ARROW_DOWN, ARROW_RIGHT, ARROW_LEFT} -> editorMoveCursor(e, key)
      [] OTHER -> e

----------------------------------------------------------------------------
(* terminal: die, exit, disableRawMode, enableRawMode *)

Ev(kind, arg) == <<kind, arg>>

DieEventsAlt(s) == << Ev("perror", s), Ev("write", "2J"), Ev("write", "H") >>

\* die: clear the screen, home the cursor, perror(s); exit(1) follows.
DieEvents(s) == << Ev("write", "2J"), Ev("write", "H"), Ev("perror", s) >>

\* exit(status). The first call starts running the registered handlers. A call
\* made while exit is already running (from inside a handler) is undefined
\* behaviour: h is the number of handlers the implementation then still runs
\* (0: it goes on with the rest of its list; 1: it runs disableRawMode again).
Exit(status, h) ==
    /\ pc' = "exit"
    /\ exitStatus' = status
    /\ exitCalls' = exitCalls + 1
    /\ atexit' = IF exitCalls = 0 THEN atexit ELSE h

\* The handler counts a nested exit() may leave.
NestedHandlers == IF exitCalls + 1 < MaxExitCalls THEN {0, 1} ELSE {0}

Die(s, h) ==
    /\ out' = out \o DieEvents(s)
    /\ Exit(1, h)

\* enableRawMode, tcgetattr fails: die before the handler is registered.
EnableRawModeGetFail ==
    /\ pc = "start"
    /\ Die("tcgetattr", 0)
    /\ UNCHANGED <<E, stdin, c, readBytes, timedOut, termRaw, killedAt, frame, reallocFails>>

\* enableRawMode, tcsetattr fails: the handler is registered, the terminal is
\* not raw.
EnableRawModeSetFail ==
    /\ pc = "start"
    /\ out' = (out \o << Ev("atexit", "disableRawMode"), Ev("tcsetattr_failed", "raw") >>)
                 \o DieEvents("tcsetattr")
    /\ pc' = "exit"
    /\ exitStatus' = 1
    /\ exitCalls' = exitCalls + 1
    /\ atexit' = 1
    /\ UNCHANGED <<E, stdin, c, readBytes, timedOut, termRaw, killedAt, frame, reallocFails>>

\* enableRawMode succeeds: TCSAFLUSH discards the unread input.
EnableRawMode ==
    /\ pc = "start"
    /\ atexit' = 1
    /\ termRaw' = TRUE
    /\ stdin' = <<>>
    /\ out' = out \o << Ev("atexit", "disableRawMode"), Ev("tcsetattr", "raw") >>
    /\ pc' = "init"
    /\ UNCHANGED <<E, c, readBytes, timedOut, exitCalls, exitStatus, killedAt, frame, reallocFails>>

\* exit runs disableRawMode and tcsetattr succeeds.
DisableRawMode ==
    /\ pc = "exit"
    /\ atexit = 1
    /\ atexit' = 0
    /\ termRaw' = FALSE
    /\ out' = Append(out, Ev("tcsetattr", "orig"))
    /\ UNCHANGED <<E, pc, stdin, c, readBytes, timedOut, exitCalls, exitStatus, killedAt, frame, reallocFails>>

\* exit runs disableRawMode and tcsetattr fails: die("tcsetattr") calls exit
\* from inside the handler.
DisableRawModeFail ==
    /\ pc = "exit"
    /\ atexit = 1
    /\ exitCalls < MaxExitCalls
    /\ \E h \in NestedHandlers :
          /\ out' = Append(out, Ev("tcsetattr_failed", "orig")) \o DieEvents("tcsetattr")
          /\ Exit(1, h)
    /\ UNCHANGED <<E, stdin, c, readBytes, timedOut, termRaw, killedAt, frame, reallocFails>>

\* No handler is left: the process ends with the status of the last exit().
ExitDone ==
    /\ pc = "exit"
    /\ atexit = 0
    /\ pc' = "done"
    /\ UNCHANGED <<E, stdin, c, readBytes, timedOut, termRaw, atexit, exitCalls, exitStatus, out, killedAt, frame, reallocFails>>

\* No signal handler is installed and ISIG only stops the terminal from
\* generating signals: a signal sent to the process ends it at once, without
\* exit() and so without the registered handler.
Signal ==
    /\ pc \notin {"done", "killed"}
    /\ pc' = "killed"
    /\ killedAt' = pc
    /\ UNCHANGED <<E, stdin, c, readBytes, timedOut, termRaw, atexit, exitCalls, exitStatus, out, frame, reallocFails>>

----------------------------------------------------------------------------
(* init: initEditor, getWindowSize, getCursorPosition; main *)

InitFields(e, rows, cols) ==
    [e EXCEPT !.cx = 0, !.cy = 0, !.rowoff = 0, !.coloff = 0, !.numrows = 0,
              !.row = <<>>, !.screenrows = rows, !.screencols = cols]

\* initEditor, ioctl(TIOCGWINSZ) succeeds with ws_col != 0.
InitEditor ==
    /\ pc = "init"
    /\ \E rows \in 0..MaxScreenRows, cols \in 1..MaxScreenCols :
          E' = InitFields(E, rows, cols)
    /\ pc' = "open"
    /\ UNCHANGED <<stdin, c, readBytes, timedOut, termRaw, atexit, exitCalls, exitStatus, out, killedAt, frame, reallocFails>>

\* sizeof(buf) in getCursorPosition
BufSize == 32

RECURSIVE ReplyScan(_, _)
\* The read loop of getCursorPosition from index i on the input queue in:
\* n is the number of bytes read, len the final i (the length of buf).
ReplyScan(in, i) ==
    IF i >= BufSize - 1 THEN [n |-> i, len |-> i]
    ELSE IF Len(in) <= i THEN [n |-> i, len |-> i]
    ELSE IF in[i + 1] = CH_R THEN [n |-> i + 1, len |-> i]
    ELSE ReplyScan(in, i + 1)

RECURSIVE DigitRun(_)
\* The number of decimal digits s begins with.
DigitRun(s) ==
    IF s # <<>> /\ Head(s) >= CH_0 /\ Head(s) <= CH_9 THEN 1 + DigitRun(Tail(s)) ELSE 0

RECURSIVE DecValueAlt(_, _)
DecValueAlt(s, acc) ==
    IF s = <<>> THEN acc ELSE DecValueAlt(Tail(s), acc + (Head(s) - CH_0))

RECURSIVE DecValue(_, _)
\* The value of a run of decimal digits, as %d accumulates it.
DecValue(s, acc) ==
    IF s = <<>> THEN acc ELSE DecValue(Tail(s), acc * 10 + (Head(s) - CH_0))

\* sscanf(s, "%d;%d", &a, &b) on a string without white space and signs:
\* count is its return value, a and b are the values stored.
Sscanf(s) ==
    LET n1 == DigitRun(s)
        rest == Drop(s, n1)
        n2 == IF rest # <<>> /\ Head(rest) = CH_SEMI THEN DigitRun(Tail(rest)) ELSE 0
    IN  IF n1 = 0 THEN [count |-> 0, a |-> 0, b |-> 0]
        ELSE IF n2 = 0 THEN [count |-> 1, a |-> DecValue(SubSeq(s, 1, n1), 0), b |-> 0]
        ELSE [count |-> 2, a |-> DecValue(SubSeq(s, 1, n1), 0),
              b |-> DecValue(SubSeq(rest, 2, n2 + 1), 0)]

\* getCursorPosition after its write of ESC [ 6 n succeeded, up to its
\* editorReadKey call: in is the input queue, rows and cols are the values of
\* *rows and *cols before the call. ret is 1 when the reply parsed and -1
\* otherwise; n is the number of bytes read.
getCursorPosition(in, rows, cols) ==
    LET scan == ReplyScan(in, 0)
        buf == SubSeq(in, 1, scan.len)
        r == Sscanf(Drop(buf, 2))
    IN  IF Len(buf) < 2 \/ buf[1] # ESC \/ buf[2] # CH_LBRACKET
        THEN [ret |-> 0 - 1, rows |-> rows, cols |-> cols, n |-> scan.n]
        ELSE IF r.count # 2
        THEN [ret |-> 0 - 1, rows |-> IF r.count = 1 THEN r.a ELSE rows, cols |-> cols,
              n |-> scan.n]
        ELSE [ret |-> 1, rows |-> r.a, cols |-> r.b, n |-> scan.n]

\* What the terminal puts on stdin after the query ESC [ 6 n: a cursor-position
\* report, a report followed by a key typed during startup, nothing, or bytes
\* that are no report.
TerminalInputs ==
    { (<<ESC, CH_LBRACKET>> \o Dec(r) \o <<CH_SEMI>> \o Dec(k) \o <<CH_R>>) :
          r \in 1..MaxScreenRows, k \in 1..MaxScreenCols }
    \cup { <<ESC, CH_LBRACKET, CH_2, CH_4, CH_SEMI, CH_8, CH_0, CH_R>>,
           <<ESC, CH_LBRACKET, CH_1, CH_SEMI, CH_2, CH_R, CH_x>>,
           <<ESC, CH_LBRACKET, CH_2, CH_SEMI, CH_3>>,
           (<<ESC, CH_LBRACKET, CH_1, CH_SEMI, CH_1>> \o [i \in 1..27 |-> CH_x]) \o <<CH_R>>,
           << >>,
           <<CH_x, CH_R>>,
           <<ESC, CH_LBRACKET, CH_R>>,
           <<ESC, CH_LBRACKET, CH_2, CH_R>>,
           <<ESC, CH_LBRACKET, CH_2, CH_SEMI, CH_R>> }

\* What getWindowSize writes before getCursorPosition reads.
FallbackWrites == << Ev("write", "999C999B"), Ev("write", "6n") >>

\* initEditor, ioctl fails or reports 0 columns, both writes succeed and the
\* reply parses: getCursorPosition goes on to its editorReadKey call.
InitEditorFallback ==
    /\ pc = "init"
    /\ \E t \in TerminalInputs :
          LET g == getCursorPosition(stdin \o t, E.screenrows, E.screencols)
          IN  /\ g.ret = 1
              /\ E' = InitFields(E, g.rows, g.cols)
              /\ readBytes' = SubSeq(stdin \o t, 1, g.n)
              /\ stdin' = Drop(stdin \o t, g.n)
    /\ out' = out \o FallbackWrites
    /\ pc' = "gcp_key"
    /\ UNCHANGED <<c, timedOut, termRaw, atexit, exitCalls, exitStatus, killedAt, frame, reallocFails>>

\* initEditor, ioctl fails or reports 0 columns, both writes succeed and the
\* reply does not parse: getWindowSize returns -1, die("getWindowSize").
InitEditorBadReply ==
    /\ pc = "init"
    /\ \E t \in TerminalInputs :
          LET g == getCursorPosition(stdin \o t, E.screenrows, E.screencols)
          IN  /\ g.ret # 1
              /\ E' = InitFields(E, g.rows, g.cols)
              /\ readBytes' = SubSeq(stdin \o t, 1, g.n)
              /\ stdin' = Drop(stdin \o t, g.n)
    /\ out' = (out \o FallbackWrites) \o DieEvents("getWindowSize")
    /\ Exit(1, 0)
    /\ UNCHANGED <<c, timedOut, termRaw, killedAt, frame, reallocFails>>

\* initEditor, ioctl fails or reports 0 columns and one of the two writes
\* fails: getWindowSize returns -1, die("getWindowSize").
InitEditorFail ==
    /\ pc = "init"
    /\ E' = InitFields(E, E.screenrows, E.screencols)
    /\ \E w \in { << Ev("write_failed", "999C999B") >>,
                   << Ev("write", "999C999B"), Ev("write_failed", "6n") >> } :
          out' = (out \o w) \o DieEvents("getWindowSize")
    /\ Exit(1, 0)
    /\ UNCHANGED <<stdin, c, readBytes, timedOut, termRaw, killedAt, frame, reallocFails>>

\* The editorReadKey call at the end of getCursorPosition: its key is dropped.
GetCursorPositionReadKey ==
    /\ pc = "gcp_key"
    /\ stdin # <<>>
    /\ stdin' = Drop(stdin, editorReadKey(stdin).n)
    /\ timedOut' = FALSE
    /\ pc' = "open"
    /\ UNCHANGED <<E, c, readBytes, termRaw, atexit, exitCalls, exitStatus, out, killedAt, frame, reallocFails>>

\* main without a file argument.
NoFile ==
    /\ pc = "open"
    /\ pc' = "refresh"
    /\ UNCHANGED <<E, stdin, c, readBytes, timedOut, termRaw, atexit, exitCalls, exitStatus, out, killedAt, frame, reallocFails>>

\* editorOpen: every line of the file becomes a row.
EditorOpen ==
    /\ pc = "open"
    /\ \E f \in Files : \E pres \in [1..Len(f) -> Uninit] : E' = AppendLines(E, f, pres)
    /\ pc' = "refresh"
    /\ UNCHANGED <<stdin, c, readBytes, timedOut, termRaw, atexit, exitCalls, exitStatus, out, killedAt, frame, reallocFails>>

\* editorOpen on a file with at least one line: idx holds an index outside the
\* block of row->render and the first store of editorUpdateRow faults.
EditorOpenFault ==
    /\ pc = "open"
    /\ pc' = "killed"
    /\ killedAt' = "open"
    /\ out' = Append(out, Ev("fault", "editorUpdateRow"))
    /\ UNCHANGED <<E, stdin, c, readBytes, timedOut, termRaw, atexit, exitCalls, exitStatus, frame, reallocFails>>

\* editorOpen: fopen fails.
EditorOpenFail ==
    /\ pc = "open"
    /\ Die("fopen", 0)
    /\ UNCHANGED <<E, stdin, c, readBytes, timedOut, termRaw, killedAt, frame, reallocFails>>

----------------------------------------------------------------------------
(* main loop: editorRefreshScreen, editorProcessKeypress *)

\* editorRefreshScreen: editorScroll, then the frame is built and written.
EditorRefreshScreen ==
    /\ pc = "refresh"
    /\ E' = editorScroll(E)
    /\ \E failed \in FailSets(Len(RefreshAppends(editorScroll(E))), reallocFails) :
          /\ frame' = AppendRange(RefreshAppends(editorScroll(E)), 1,
                                 Len(RefreshAppends(editorScroll(E))), failed)
          /\ reallocFails' = reallocFails - Cardinality(failed)
    /\ c' = NoKey
    /\ readBytes' = <<>>
    /\ pc' = "readkey"
    /\ UNCHANGED <<stdin, timedOut, termRaw, atexit, exitCalls, exitStatus, out, killedAt>>

TimeoutPcAlt(p) == IF p = "readkey" THEN "refresh" ELSE "open"

\* Where editorReadKey goes when its first read returns 0, or -1 with EAGAIN:
\* round its while loop, to the same read again.
TimeoutPc(p) == p

\* The first read of editorReadKey finds no byte.
ReadTimeout ==
    /\ pc \in {"readkey", "gcp_key"}
    /\ stdin = <<>>
    /\ timedOut' = TRUE
    /\ pc' = TimeoutPc(pc)
    /\ UNCHANGED <<E, stdin, c, readBytes, termRaw, atexit, exitCalls, exitStatus, out, killedAt, frame, reallocFails>>

\* The first read of editorReadKey returns -1 with errno != EAGAIN.
ReadFail ==
    /\ pc \in {"readkey", "gcp_key"}
    /\ Die("read", 0)
    /\ UNCHANGED <<E, stdin, c, readBytes, timedOut, termRaw, killedAt, frame, reallocFails>>

\* editorProcessKeypress: a key other than CTRL_KEY('q').
EditorProcessKeypress ==
    /\ pc = "readkey"
    /\ stdin # <<>>
    /\ editorReadKey(stdin).key # CTRL_Q
    /\ c' = editorReadKey(stdin).key
    /\ readBytes' = SubSeq(stdin, 1, editorReadKey(stdin).n)
    /\ stdin' = Drop(stdin, editorReadKey(stdin).n)
    /\ E' = Dispatch(E, editorReadKey(stdin).key)
    /\ timedOut' = FALSE
    /\ pc' = "refresh"
    /\ UNCHANGED <<termRaw, atexit, exitCalls, exitStatus, out, killedAt, frame, reallocFails>>

\* editorProcessKeypress: CTRL_KEY('q') clears the screen and calls exit(0).
Quit ==
    /\ pc = "readkey"
    /\ stdin # <<>>
    /\ editorReadKey(stdin).key = CTRL_Q
    /\ c' = CTRL_Q
    /\ readBytes' = <<CTRL_Q>>
    /\ stdin' = Drop(stdin, 1)
    /\ timedOut' = FALSE
    /\ out' = out \o << Ev("write", "2J"), Ev("write", "H") >>
    /\ Exit(0, 0)
    /\ UNCHANGED <<E, termRaw, killedAt, frame, reallocFails>>

----------------------------------------------------------------------------
(* The terminal: what a key press puts on stdin *)

KeySequences ==
    { <<CTRL_Q>>, <<CH_x>>, <<ESC>>, <<ESC, CH_LBRACKET>>,
      <<ESC, CH_LBRACKET, CH_A>>, <<ESC, CH_LBRACKET, CH_B>>,
      <<ESC, CH_LBRACKET, CH_C>>, <<ESC, CH_LBRACKET, CH_D>>,
      <<ESC, CH_O, CH_H>>, <<ESC, CH_LBRACKET, CH_F>>,
      <<ESC, CH_LBRACKET, CH_3, CH_TILDE>>, <<ESC, CH_LBRACKET, CH_4, CH_TILDE>>,
      <<ESC, CH_LBRACKET, CH_5, CH_TILDE>>, <<ESC, CH_LBRACKET, CH_6, CH_TILDE>> }

\* The user presses a key while the editor waits in editorReadKey.
Type ==
    /\ pc \in {"readkey", "gcp_key"}
    /\ stdin = <<>>
    /\ \E k \in KeySequences : stdin' = k
    /\ UNCHANGED <<E, pc, c, readBytes, timedOut, termRaw, atexit, exitCalls, exitStatus, out, killedAt, frame, reallocFails>>

----------------------------------------------------------------------------
(* The program from its start *)

Init ==
    /\ E = [cx |-> 0, cy |-> 0, rowoff |-> 0, coloff |-> 0, screenrows |-> 0,
            screencols |-> 0, numrows |-> 0, row |-> <<>>]
    /\ pc = "start"
    /\ stdin = <<>>
    /\ c = NoKey
    /\ readBytes = <<>>
    /\ timedOut = FALSE
    /\ termRaw = FALSE
    /\ atexit = 0
    /\ exitCalls = 0
    /\ exitStatus = 0
    /\ out = <<>>
    /\ killedAt = "none"
    /\ frame = <<>>
    /\ reallocFails = 0

Next ==
    \/ EnableRawModeGetFail
    \/ EnableRawModeSetFail
    \/ EnableRawMode
    \/ InitEditor
    \/ InitEditorFallback
    \/ InitEditorBadReply
    \/ InitEditorFail
    \/ GetCursorPositionReadKey
    \/ NoFile
    \/ EditorOpen
    \/ EditorOpenFault
    \/ EditorOpenFail
    \/ EditorRefreshScreen
    \/ ReadTimeout
    \/ ReadFail
    \/ EditorProcessKeypress
    \/ Quit
    \/ DisableRawMode
    \/ DisableRawModeFail
    \/ ExitDone
    \/ Signal
    \/ Type

Spec == Init /\ [][Next]_vars

----------------------------------------------------------------------------
(* The key decoder on arbitrary input: the main loop, started on a loaded   *)
(* file with bytes already pending on stdin.                                *)

Bytes ==
    { CTRL_Q, ESC, CH_LBRACKET, CH_O, CH_TILDE, CH_0, CH_1, CH_2, CH_3, CH_4, CH_5,
      CH_6, CH_7, CH_8, CH_9, CH_A, CH_B, CH_C, CH_D, CH_F, CH_H, CH_TAB, CH_x }

TailBytes == { CH_TILDE, CH_B, CH_x, CTRL_Q }

RECURSIVE SeqsUpTo(_, _)
SeqsUpTo(S, n) ==
    IF n = 0 THEN { <<>> }
    ELSE LET shorter == SeqsUpTo(S, n - 1)
         IN  shorter \cup { Append(t, b) : t \in shorter, b \in S }

\* ESC, any two bytes, and up to MaxTail further bytes; or a byte other than
\* ESC and up to MaxTail further bytes.
Streams ==
    { (<<ESC, a, b>>) \o t : a \in Bytes, b \in Bytes, t \in SeqsUpTo(TailBytes, MaxTail) }
    \cup { <<a>> \o t : a \in Bytes \ {ESC}, t \in SeqsUpTo(TailBytes, MaxTail) }

InitKey ==
    /\ E = AppendLines([cx |-> 0, cy |-> 0, rowoff |-> 0, coloff |-> 0,
                        screenrows |-> MaxScreenRows, screencols |-> MaxScreenCols,
                        numrows |-> 0, row |-> <<>>],
                       << <<97, 98, 99>>, <<CH_TAB, CH_x>>, <<>> >>,
                       << <<>>, <<>>, <<>> >>)
    /\ pc = "refresh"
    /\ stdin \in Streams
    /\ c = NoKey
    /\ readBytes = <<>>
    /\ timedOut = FALSE
    /\ termRaw = TRUE
    /\ atexit = 1
    /\ exitCalls = 0
    /\ exitStatus = 0
    /\ out = << Ev("atexit", "disableRawMode"), Ev("tcsetattr", "raw") >>
    /\ killedAt = "none"
    /\ frame = <<>>
    /\ reallocFails = 0

NextKey ==
    \/ EditorRefreshScreen
    \/ ReadTimeout
    \/ ReadFail
    \/ EditorProcessKeypress
    \/ Quit
    \/ DisableRawMode
    \/ DisableRawModeFail
    \/ ExitDone

SpecKey == InitKey /\ [][NextKey]_vars

----------------------------------------------------------------------------
(* The main loop when memory runs short: started on a loaded file, with up  *)
(* to MaxAllocFail calls of realloc in abAppend still to return NULL.       *)

InitDraw ==
    /\ \E f \in Files : \E pres \in [1..Len(f) -> Uninit] :
          E = AppendLines([cx |-> 0, cy |-> 0, rowoff |-> 0, coloff |-> 0,
                           screenrows |-> MaxScreenRows, screencols |-> MaxScreenCols,
                           numrows |-> 0, row |-> <<>>], f, pres)
    /\ pc = "refresh"
    /\ stdin = <<>>
    /\ c = NoKey
    /\ readBytes = <<>>
    /\ timedOut = FALSE
    /\ termRaw = TRUE
    /\ atexit = 1
    /\ exitCalls = 0
    /\ exitStatus = 0
    /\ out = << Ev("atexit", "disableRawMode"), Ev("tcsetattr", "raw") >>
    /\ killedAt = "none"
    /\ frame = <<>>
    /\ reallocFails \in 0..MaxAllocFail

NextDraw ==
    \/ EditorRefreshScreen
    \/ ReadTimeout
    \/ EditorProcessKeypress
    \/ Type

SpecDraw == InitDraw /\ [][NextDraw]_vars

----------------------------------------------------------------------------
(* Properties *)

\* A step in which editorProcessKeypress read a key and dispatched it.
KeyStep == pc = "readkey" /\ pc' = "refresh"

Cursor(e) == <<e.cy, e.cx>>

\* C1: right after the scroll step of a frame (the editor then waits in
\* editorReadKey), with at least one screen row and one screen column, the
\* cursor's screen position is inside the window:
\* 0 <= cy - rowoff < screenrows and 0 <= cx - coloff < screencols.
C1_CursorInWindow ==
    (pc = "readkey" /\ E.screenrows >= 1 /\ E.screencols >= 1) =>
        /\ 0 <= E.cy - E.rowoff /\ E.cy - E.rowoff < E.screenrows
        /\ 0 <= E.cx - E.coloff /\ E.cx - E.coloff < E.screencols

\* The window has been scrolled both down and right to follow the cursor.
C1_Witness ==
    pc = "readkey" /\ E.screenrows >= 1 /\ E.rowoff > 0 /\ E.coloff > 0

\* C2: in every reachable state 0 <= cx <= length of the row at cy (0 when cy
\* is the row count).
C2_CxWithinRow == 0 <= E.cx /\ E.cx <= RowLen(E)

\* C3: End sets cx to the length of the cursor's row and Home sets it to 0,
\* both leaving cy unchanged.
C3_EndHome ==
    [][ KeyStep =>
          /\ (c' = END_KEY => Cursor(E') = <<E.cy, RowLen(E)>>)
          /\ (c' = HOME_KEY => Cursor(E') = <<E.cy, 0>>) ]_vars

\* C4 as claimed: Right at the end of a row moves to (cy+1, 0) only if row
\* cy+1 exists, and at the end of the last row leaves cy and cx unchanged.
C4_RightOnlyIfNextRow ==
    [][ (KeyStep /\ c' = ARROW_RIGHT /\ E.cy < E.numrows /\ E.cx = RowLen(E)) =>
          IF E.cy + 1 < E.numrows THEN Cursor(E') = <<E.cy + 1, 0>>
          ELSE Cursor(E') = Cursor(E) ]_vars

\* C4 as amended: Right at the end of a row moves to (cy+1, 0) whether or not
\* row cy+1 exists; at the end of the last row that is (numrows, 0).
C4_RightAtEndOfRow ==
    [][ (KeyStep /\ c' = ARROW_RIGHT /\ E.cy < E.numrows /\ E.cx = RowLen(E)) =>
          Cursor(E') = <<E.cy + 1, 0>> ]_vars

\* Right has just taken the cursor from the last row to one past it: the
\* window, scrolled for the cursor's previous row, does not show row cy yet.
C4_Witness ==
    /\ pc = "refresh" /\ c = ARROW_RIGHT
    /\ E.numrows > 0 /\ E.cy = E.numrows /\ E.cx = 0
    /\ E.screenrows >= 1 /\ E.cy >= E.rowoff + E.screenrows

\* C5: in every reachable state 0 <= cy <= numrows.
C5_CyInRange == 0 <= E.cy /\ E.cy <= E.numrows

\* Down or PageDown has been dispatched and the cursor is one past the last row.
C5_Witness ==
    /\ pc = "refresh" /\ c \in {ARROW_DOWN, PAGE_DOWN}
    /\ E.numrows > 0 /\ E.cy = E.numrows

Events == { out[i] : i \in DOMAIN out }
Restored(i) == out[i] = Ev("tcsetattr", "orig")
RawEntered == Ev("tcsetattr", "raw") \in Events

\* C6: once raw mode has been entered, a process that has ended through exit
\* (quit or die) has restored the original terminal configuration exactly once.
C6_RestoredExactlyOnce ==
    (pc = "done" /\ RawEntered) => Cardinality({ i \in DOMAIN out : Restored(i) }) = 1

\* C7: raw mode is not left active when a signal delivered during the main loop
\* has ended the process.
C7_NoRawAfterSignal ==
    (pc = "killed" /\ killedAt \in {"refresh", "readkey"}) => ~termRaw

IsDiag(i) == out[i][1] = "perror"
\* The terminal is in raw mode when event i happens.
RawAt(i) ==
    /\ \E j \in 1..(i - 1) : out[j] = Ev("tcsetattr", "raw")
    /\ \A j \in 1..(i - 1) : ~Restored(j)

\* C8 as claimed: every diagnostic comes after the screen was cleared and the
\* terminal restored, and is never printed while the terminal is in raw mode.
C8_RestoreBeforeDiagnostic ==
    \A i \in DOMAIN out : IsDiag(i) =>
        /\ \E k \in 1..(i - 1) : out[k] = Ev("write", "2J")
        /\ ~RawAt(i)

\* C8 as amended: die clears the screen, homes the cursor, prints the
\* diagnostic and calls exit(1), in this order; the terminal is restored only
\* after the diagnostic, by the exit handler, so the diagnostic is printed in
\* raw mode whenever raw mode was entered; a die raised outside the handler is
\* followed by the handler's tcsetattr; the process ends with status 1.
C8_DieOrder ==
    \A i \in DOMAIN out : IsDiag(i) =>
        /\ i >= 3 /\ out[i - 2] = Ev("write", "2J") /\ out[i - 1] = Ev("write", "H")
        /\ \A j \in 1..(i - 1) : ~Restored(j)
        /\ (RawEntered => RawAt(i))
        /\ pc \in {"exit", "done", "killed"}
        /\ exitStatus = 1
        /\ (pc = "done" /\ Ev("atexit", "disableRawMode") \in Events
              /\ \A j \in 1..(i - 1) : out[j] # Ev("tcsetattr_failed", "orig"))
           => \E j \in (i + 1)..Len(out) :
                 out[j] \in {Ev("tcsetattr", "orig"), Ev("tcsetattr_failed", "orig")}

\* A fatal error in raw mode has ended the process: diagnostic, then restore.
C8_Witness ==
    /\ pc = "done" /\ RawEntered /\ ~termRaw
    /\ \E i \in DOMAIN out : IsDiag(i) /\ \E j \in (i + 1)..Len(out) : Restored(j)

IsDigit(b) == b >= CH_0 /\ b <= CH_9

\* The escape sequences of the wire protocol.
Recognised(in) ==
    \/ in[2] = CH_LBRACKET /\ in[3] \in {CH_A, CH_B, CH_C, CH_D, CH_H, CH_F}
    \/ in[2] = CH_O /\ in[3] \in {CH_H, CH_F}
    \/ /\ in[2] = CH_LBRACKET /\ in[3] \in {CH_1, CH_2, CH_3, CH_5, CH_6, CH_7, CH_8}
       /\ Len(in) >= 4 /\ in[4] = CH_TILDE

\* The input begins with ESC and two bytes that form no recognised pattern.
Garbage(in) == Len(in) >= 3 /\ in[1] = ESC /\ ~Recognised(in)

\* C9 as claimed: such an input decodes to bare ESC and exactly its three bytes
\* are consumed, the next call starting at the byte after them.
C9_GarbageConsumesThree ==
    [][ (KeyStep /\ Garbage(stdin)) => (c' = ESC /\ stdin' = Drop(stdin, 3)) ]_vars

\* C9 as amended: such an input decodes to bare ESC; exactly three bytes are
\* consumed, or four when the two bytes are '[' and a digit and a further byte
\* is pending; the next call starts at the first byte not consumed.
C9_GarbageDecodesToEsc ==
    [][ (KeyStep /\ Garbage(stdin)) =>
          /\ c' = ESC
          /\ stdin' = Drop(stdin, IF stdin[2] = CH_LBRACKET /\ IsDigit(stdin[3]) /\ Len(stdin) >= 4
                                  THEN 4 ELSE 3) ]_vars

\* ESC [ 4 ~ has been decoded to bare ESC with all four bytes consumed; the
\* byte after them is the next to be read.
C9_Witness ==
    /\ pc = "refresh" /\ c = ESC
    /\ readBytes = <<ESC, CH_LBRACKET, CH_4, CH_TILDE>>
    /\ stdin = <<CH_B>>

\* A first-byte read of editorReadKey in the main loop times out.
TimeoutStep == pc = "readkey" /\ ~timedOut /\ timedOut'

\* C10 as claimed: after a timeout of the first-byte read control is back in
\* the dispatcher loop, which renders again.
C10_TimeoutReturnsToLoop == [][ TimeoutStep => pc' = "refresh" ]_vars

\* C10 as amended: a timeout of the first-byte read keeps the process inside
\* editorReadKey, with no event and no change of the editor state; the main
\* loop gets control back (and renders) only once a byte has been read.
C10_TimeoutStaysInReadKey ==
    [][ /\ (TimeoutStep => (pc' = "readkey" /\ E' = E /\ c' = c))
        /\ (KeyStep => stdin # <<>>) ]_vars

\* The process is still inside editorReadKey after a timeout.
C10_Witness == pc = "readkey" /\ timedOut /\ stdin = <<>>

RECURSIVE ExpandTabs(_, _)
\* The bytes s shows as when its first byte is at column col: a tab advances
\* to the next multiple of 8, any other byte takes one column.
ExpandTabs(s, col) ==
    IF s = <<>> THEN <<>>
    ELSE IF Head(s) = CH_TAB
         THEN Spaces(8 - (col % 8)) \o ExpandTabs(Tail(s), col + (8 - (col % 8)))
    ELSE <<Head(s)>> \o ExpandTabs(Tail(s), col + 1)

\* The column of the cursor after tab expansion of the bytes before it.
RenderedColumn(e) == Len(ExpandTabs(SubSeq(e.row[e.cy + 1].chars, 1, e.cx), 0))

HasTab(row) == \E i \in 1..row.size : row.chars[i] = CH_TAB

\* C11: right after editorScroll, for a cursor inside a row that contains tabs,
\* coloff <= rendered column of the cursor < coloff + screencols.
C11_RenderedCursorInWindow ==
    (pc = "readkey" /\ E.cy < E.numrows /\ HasTab(E.row[E.cy + 1]) /\ E.cx <= RowLen(E)) =>
        /\ E.coloff <= RenderedColumn(E)
        /\ RenderedColumn(E) < E.coloff + E.screencols

\* The escape sequences of the decode table and their keys.
C12_Table ==
    { [seq |-> <<ESC, CH_LBRACKET, CH_1, CH_TILDE>>, key |-> HOME_KEY],
      [seq |-> <<ESC, CH_LBRACKET, CH_7, CH_TILDE>>, key |-> HOME_KEY],
      [seq |-> <<ESC, CH_LBRACKET, CH_2, CH_TILDE>>, key |-> END_KEY],
      [seq |-> <<ESC, CH_LBRACKET, CH_8, CH_TILDE>>, key |-> END_KEY],
      [seq |-> <<ESC, CH_LBRACKET, CH_3, CH_TILDE>>, key |-> DEL_KEY],
      [seq |-> <<ESC, CH_LBRACKET, CH_5, CH_TILDE>>, key |-> PAGE_UP],
      [seq |-> <<ESC, CH_LBRACKET, CH_6, CH_TILDE>>, key |-> PAGE_DOWN],
      [seq |-> <<ESC, CH_LBRACKET, CH_A>>, key |-> ARROW_UP],
      [seq |-> <<ESC, CH_LBRACKET, CH_B>>, key |-> ARROW_DOWN],
      [seq |-> <<ESC, CH_LBRACKET, CH_C>>, key |-> ARROW_RIGHT],
      [seq |-> <<ESC, CH_LBRACKET, CH_D>>, key |-> ARROW_LEFT],
      [seq |-> <<ESC, CH_LBRACKET, CH_H>>, key |-> HOME_KEY],
      [seq |-> <<ESC, CH_O, CH_H>>, key |-> HOME_KEY],
      [seq |-> <<ESC, CH_LBRACKET, CH_F>>, key |-> END_KEY],
      [seq |-> <<ESC, CH_O, CH_F>>, key |-> END_KEY] }

IsPrefix(p, s) == Len(p) <= Len(s) /\ SubSeq(s, 1, Len(p)) = p

\* A step in which editorReadKey, called by editorProcessKeypress, returned a key.
ReadStep == pc = "readkey" /\ readBytes = <<>> /\ readBytes' # <<>>

\* C12: when the pending input begins with a complete escape sequence of the
\* table, editorReadKey returns the table's key and consumes exactly the bytes
\* of the sequence; a first byte other than ESC is returned as itself and is
\* the only byte consumed.
C12_DecodeTable ==
    [][ ReadStep =>
          /\ \A t \in C12_Table : IsPrefix(t.seq, stdin) =>
                (c' = t.key /\ readBytes' = t.seq /\ stdin' = Drop(stdin, Len(t.seq)))
          /\ (stdin[1] # ESC =>
                (c' = stdin[1] /\ readBytes' = <<stdin[1]>> /\ stdin' = Drop(stdin, 1))) ]_vars

\* ESC [ 8 ~ has been decoded to End with its four bytes consumed and the byte
\* after them still pending.
C12_Witness ==
    /\ pc = "refresh" /\ c = END_KEY
    /\ readBytes = <<ESC, CH_LBRACKET, CH_8, CH_TILDE>>
    /\ stdin = <<CH_B>>

\* C13: in every reachable state, rowoff = 0 if the buffer has fewer rows than
\* the screen, and coloff = 0 if every row is shorter than the screen is wide.
C13_NoScrollWhenFits ==
    /\ (E.numrows < E.screenrows => E.rowoff = 0)
    /\ ((\A i \in 1..E.numrows : E.row[i].size < E.screencols) => E.coloff = 0)

\* A buffer that fits the screen both ways; the cursor has been moved below
\* its last row and End has just been dispatched there.
C13_Witness ==
    /\ pc = "refresh" /\ c = END_KEY
    /\ E.numrows >= 1 /\ E.numrows < E.screenrows
    /\ \A i \in 1..E.numrows : E.row[i].size < E.screencols
    /\ E.cy = E.numrows /\ E.cx = E.screencols - 1

RECURSIVE ConcatRange(_, _, _)
\* The concatenation of the sequences f[lo], ..., f[hi].
ConcatRange(f, lo, hi) ==
    IF lo > hi THEN <<>>
    ELSE IF lo = hi THEN f[lo]
    ELSE ConcatRange(f, lo, (lo + hi) \div 2) \o ConcatRange(f, (lo + hi) \div 2 + 1, hi)

\* The decimal digits of a number below 100.
Digits(n) == IF n < 10 THEN <<48 + n>> ELSE <<48 + (n \div 10), 48 + (n % 10)>>

\* The row lines of a frame as editorDrawRows appends them.
RowLines(e) == ConcatRange(editorDrawRows(e), 1, Len(editorDrawRows(e)))

\* C14: the frame written for the editor state E is, in this order and with no
\* part missing: ESC[?25l, ESC[H, the screenrows row lines,
\* ESC[<cy-rowoff+1>;<cx-coloff+1>H, ESC[?25h.
C14_FrameComplete ==
    pc = "readkey" =>
        frame = <<27, 91, 63, 50, 53, 108>> \o <<27, 91, 72>> \o RowLines(E)
                  \o (<<27, 91>> \o Digits(E.cy - E.rowoff + 1) \o <<59>>
                         \o Digits(E.cx - E.coloff + 1) \o <<72>>)
                  \o <<27, 91, 63, 50, 53, 104>>

NumTabs(row) == Cardinality({ i \in 1..row.size : row.chars[i] = CH_TAB })

\* C15: the rendered form of every row is the tab expansion (tab stop 8) of its
\* raw bytes: equal to the raw bytes when there is no tab, 8 * n spaces for a
\* row of n tabs, and never longer than size + 7 * (number of tabs).
C15_RenderIsExpansion ==
    \A i \in 1..E.numrows :
        /\ E.row[i].render = ExpandTabs(E.row[i].chars, 0)
        /\ E.row[i].rsize = Len(ExpandTabs(E.row[i].chars, 0))
        /\ (NumTabs(E.row[i]) = 0 => E.row[i].render = E.row[i].chars)
        /\ (NumTabs(E.row[i]) = E.row[i].size => E.row[i].rsize = 8 * E.row[i].size)
        /\ E.row[i].rsize <= E.row[i].size + 7 * NumTabs(E.row[i])

\* The step of initEditor in which getWindowSize wrote its two queries and
\* getCursorPosition read the terminal's answer (readBytes').
FallbackRead ==
    /\ pc = "init"
    /\ Len(out') >= Len(out) + 2
    /\ out'[Len(out) + 2] = Ev("write", "6n")

\* The cursor-position report for row r and column k.
C16_Reply(r, k) == <<27, 91>> \o Digits(r) \o <<59>> \o Digits(k) \o <<82>>

AllDigits(b, from, to) == \A i \in from..to : b[i] >= 48 /\ b[i] <= 57

\* b begins with ESC [ <digits> ; <digit>
C16_Parsable(b) ==
    /\ Len(b) >= 5 /\ b[1] = 27 /\ b[2] = 91
    /\ \E n \in 1..(Len(b) - 4) :
          AllDigits(b, 3, 2 + n) /\ b[3 + n] = 59 /\ AllDigits(b, 4 + n, 4 + n)

\* C16: the fallback writes ESC[999C ESC[999B and then ESC[6n; when the answer
\* is ESC[<r>;<c>R it sets screenrows = r and screencols = c and does not take
\* the fatal-error path (ESC[24;80R gives 24 and 80); when the answer cannot be
\* parsed, initialisation ends in the fatal-error path.
C16_FallbackParsesReply ==
    [][ /\ \A i \in DOMAIN out' :
              out'[i] = Ev("write", "6n") => (i > 1 /\ out'[i - 1] = Ev("write", "999C999B"))
        /\ FallbackRead =>
              /\ \A r \in 1..99, k \in 1..99 :
                    readBytes' = C16_Reply(r, k) =>
                        /\ E'.screenrows = r /\ E'.screencols = k
                        /\ pc' = "gcp_key" /\ exitCalls' = 0
                        /\ Len(out') = Len(out) + 2
              /\ ~C16_Parsable(readBytes') =>
                    /\ pc' = "exit" /\ exitStatus' = 1
                    /\ out'[Len(out')] = Ev("perror", "getWindowSize") ]_vars

\* The answer ESC[24;80R has been read and the screen is 24 rows by 80 columns.
C16_Witness ==
    /\ pc = "gcp_key"
    /\ readBytes = <<27, 91, 50, 52, 59, 56, 48, 82>>
    /\ E.screenrows = 24 /\ E.screencols = 80
    /\ out[Len(out)] = Ev("write", "6n")

\* C17: the step that reads Ctrl-Q writes clear-screen and cursor-home and
\* calls exit(0); from then on no key is decoded, no field of E changes and no
\* frame is written; the process ends with raw mode exited and status 0.
C17_QuitIsClean ==
    [][ /\ (pc = "readkey" /\ c' = CTRL_Q) =>
              /\ out' = out \o << Ev("write", "2J"), Ev("write", "H") >>
              /\ pc' = "exit" /\ exitStatus' = 0
        /\ c = CTRL_Q =>
              (E' = E /\ c' = c /\ stdin' = stdin /\ readBytes' = readBytes /\ frame' = frame)
        /\ (c' = CTRL_Q /\ pc' = "done") => (~termRaw' /\ exitStatus' = 0) ]_vars

\* C18: after the cursor-position report has been read, startup goes on to
\* editorOpen without consuming a further byte and without waiting for one.
C18_FallbackReadsOnlyReply ==
    [][ /\ (pc = "gcp_key" /\ pc' = "open") => stdin' = stdin
        /\ pc = "gcp_key" => ~timedOut' ]_vars

\* C19: exit() is called at most once in a run.
C19_ExitEnteredOnce == exitCalls <= 1

\* render[coloff .. min(rsize, coloff + screencols)) of a row; empty when
\* coloff >= rsize.
C20_Slice(e, row) ==
    LET to == IF row.rsize < e.coloff + e.screencols THEN row.rsize
              ELSE e.coloff + e.screencols
    IN  [i \in 1..(IF to > e.coloff THEN to - e.coloff ELSE 0) |-> row.render[e.coloff + i]]

\* What a screen row below the buffer shows.
C20_Filler(e, y) ==
    IF e.numrows = 0 /\ y = e.screenrows \div 3
    THEN ConcatRange(WelcomeRow(e), 1, Len(WelcomeRow(e)))
    ELSE <<126>>

\* Screen row y of a frame.
C20_Line(e, y) ==
    (IF y + e.rowoff < e.numrows THEN C20_Slice(e, e.row[y + e.rowoff + 1])
     ELSE C20_Filler(e, y))
    \o <<27, 91, 75>>
    \o (IF y < e.screenrows - 1 THEN <<13, 10>> ELSE <<>>)

\* C20: in the frame written for E, every screen row y whose file row
\* y + rowoff is in the buffer shows exactly render[coloff .. min(rsize,
\* coloff + screencols)) of that row, at most screencols bytes, and every screen
\* row is followed by ESC[K and, except the last, by a line break.
C20_RowSlices ==
    pc = "readkey" =>
        /\ \A y \in 0..(E.screenrows - 1) :
              y + E.rowoff < E.numrows =>
                  Len(C20_Slice(E, E.row[y + E.rowoff + 1])) <= E.screencols
        /\ frame = HideCursor \o CursorHome
                      \o ConcatRange([y \in 1..E.screenrows |-> C20_Line(E, y - 1)],
                                     1, E.screenrows)
                      \o CursorTo(E) \o ShowCursor

\* C21: Left with cx = 0 and cy > 0 moves the cursor to the end of the previous
\* row, (cy - 1, length of row cy - 1), also when cy is the row count; Left at
\* (0, 0) leaves the cursor where it is; Left with cx > 0 decrements cx by one
\* and leaves cy unchanged.
C21_LeftArrow ==
    [][ (KeyStep /\ c' = ARROW_LEFT) =>
          /\ (E.cx = 0 /\ E.cy > 0) => Cursor(E') = <<E.cy - 1, E.row[E.cy].size>>
          /\ (E.cx = 0 /\ E.cy = 0) => Cursor(E') = Cursor(E)
          /\ E.cx > 0 => Cursor(E') = <<E.cy, E.cx - 1>> ]_vars

RECURSIVE Presses(_, _, _)
\* E after n key events of the same key, each in a loop iteration of its own:
\* editorProcessKeypress dispatches the key, and the editorRefreshScreen of the
\* next iteration scrolls. An event that changes nothing ends the recursion:
\* every later event of the same key would change nothing either.
Presses(e, key, n) ==
    IF n = 0 THEN e
    ELSE LET next == editorScroll(Dispatch(e, key))
         IN  IF next = e THEN e ELSE Presses(next, key, n - 1)

\* C22: within one loop iteration PageDown moves the cursor as screenrows
\* consecutive Down events do, and PageUp as screenrows consecutive Up events:
\* afterwards cy = min(cy before + screenrows, numrows) for PageDown and
\* cy = max(cy before - screenrows, 0) for PageUp.
C22_PageIsRepeatedArrow ==
    [][ KeyStep =>
          /\ c' = PAGE_DOWN =>
                /\ Cursor(E') = Cursor(Presses(E, ARROW_DOWN, E.screenrows))
                /\ E'.cy = (IF E.cy + E.screenrows < E.numrows
                            THEN E.cy + E.screenrows ELSE E.numrows)
          /\ c' = PAGE_UP =>
                /\ Cursor(E') = Cursor(Presses(E, ARROW_UP, E.screenrows))
                /\ E'.cy = (IF E.cy - E.screenrows > 0
                            THEN E.cy - E.screenrows ELSE 0) ]_vars

\* PageDown has moved the cursor a whole page of at least two rows and the
\* cursor is still on a row of the buffer.
C22_Witness ==
    /\ pc = "refresh" /\ c = PAGE_DOWN
    /\ E.screenrows >= 2 /\ E.cy = E.screenrows /\ E.cy < E.numrows

\* The keys editorProcessKeypress moves the cursor for.
MovementKeys ==
    { ARROW_UP, ARROW_DOWN, ARROW_RIGHT, ARROW_LEFT, HOME_KEY, END_KEY, PAGE_UP, PAGE_DOWN }

\* C23: a key event other than quit, the four arrows, Home, End, PageUp and
\* PageDown (Delete, bare ESC, every literal byte but Ctrl-Q) leaves cx, cy,
\* rowoff, coloff, screenrows, screencols and the text buffer unchanged; and no
\* key event of any kind changes the row count or the content of a row.
C23_OtherKeysChangeNothing ==
    [][ /\ (KeyStep /\ c' \notin MovementKeys) => E' = E
        /\ ReadStep => (E'.numrows = E.numrows /\ E'.row = E.row) ]_vars

\* A literal byte has been dispatched with the cursor away from column 0.
C23_Witness ==
    pc = "refresh" /\ c = CH_x /\ readBytes = <<CH_x>> /\ E.cx > 0 /\ E.numrows > 0

\* A step in which editorRefreshScreen ran, editorScroll first.
RefreshStep == pc = "refresh" /\ pc' = "readkey"

\* C24: editorScroll is idempotent and minimal: applied a second time with the
\* same cursor and screen size it gives the same rowoff and coloff as the first
\* time; it changes neither the cursor nor the buffer; and it leaves rowoff
\* (coloff) unchanged whenever the cursor row (column) is already inside the
\* window.
C24_ScrollIdempotentMinimal ==
    [][ RefreshStep =>
          /\ editorScroll(E') = E'
          /\ Cursor(E') = Cursor(E)
          /\ E'.row = E.row /\ E'.numrows = E.numrows
          /\ E'.screenrows = E.screenrows /\ E'.screencols = E.screencols
          /\ (E.rowoff <= E.cy /\ E.cy < E.rowoff + E.screenrows) => E'.rowoff = E.rowoff
          /\ (E.coloff <= E.cx /\ E.cx < E.coloff + E.screencols) => E'.coloff = E.coloff ]_vars

\* A frame has been drawn with the window scrolled to the right by an earlier
\* frame and the cursor strictly between the window's first and last column,
\* on a row other than the window's first: the scroll of this frame had
\* nothing to do.
C24_Witness ==
    /\ pc = "readkey"
    /\ E.coloff > 0 /\ E.coloff < E.cx /\ E.cx < E.coloff + E.screencols - 1
    /\ E.rowoff < E.cy /\ E.cy < E.rowoff + E.screenrows

====
